---- MODULE Spec2Model ----
(***************************************************************************)
(* Model of the doctor-access flow of medical/views.py: the e-mail OTP     *)
(* challenge kept in the Django session (doctor_access), the session grant *)
(* that the protected views read, the access log (AccessLog) and the       *)
(* rate-limited owner notification (_notify_owner_if_needed).              *)
(*                                                                         *)
(* One action is one HTTP request handled from start to end.  Strings are  *)
(* sequences of one-character strings, so that str.strip(), the '@' test   *)
(* and the "06d" formatting of the code are computed as the code does.     *)
(* Time is in seconds.                                                     *)
(***************************************************************************)
EXTENDS Integers, Sequences, FiniteSets, TLC

VARIABLES now, ticks, pending, grant, tried, verifying, log, notices, inflight, mails, req, resp

vars == <<now, ticks, pending, grant, tried, verifying, log, notices, inflight, mails, req, resp>>

(***************************************************************************)
(* Bounds of the model.                                                    *)
(***************************************************************************)
MaxTicks == 3
MaxLog == 1
MaxEvents == 3
MaxTried == 7

(***************************************************************************)
(* Two client sessions and two profiles.                                   *)
(***************************************************************************)
Sessions == {1, 2}
Profiles == {1, 2}

(***************************************************************************)
(* Settings, read with getattr(settings, NAME, default); settings.py sets  *)
(* none of them, so the defaults apply.                                    *)
(***************************************************************************)
OTP_TTL_MINUTES == 5
OTP_MAX_ATTEMPTS == 5
ACCESS_NOTIFY_COOLDOWN_MINUTES == 30

\* timedelta(minutes = m) in seconds
Minutes(m) == m * 60

(***************************************************************************)
(* Strings.                                                                *)
(***************************************************************************)
Missing == <<"<missing>">>          \* a form field that was not posted: POST.get() is None
Empty == <<>>

IsSpace(c) == c \in {" ", "\t", "\n"}

SetMin(S) == CHOOSE x \in S : \A y \in S : x <= y
SetMax(S) == CHOOSE x \in S : \A y \in S : x >= y

\* str.strip()
Strip(str) ==
    LET keep == {i \in 1..Len(str) : ~IsSpace(str[i])}
    IN  IF keep = {} THEN Empty ELSE SubSeq(str, SetMin(keep), SetMax(keep))

\* (request.POST.get(name) or '').strip()
Field(raw) == IF raw = Missing THEN Empty ELSE Strip(raw)

\* '@' in email
Contains(str, c) == \E i \in 1..Len(str) : str[i] = c

DigitChars == <<"0", "1", "2", "3", "4", "5", "6", "7", "8", "9">>

RECURSIVE Pow10(_)
Pow10(k) == IF k = 0 THEN 1 ELSE 10 * Pow10(k - 1)

\* f"{n:06d}" for 0 <= n < 1000000
Format06d(n) == [i \in 1..6 |-> DigitChars[((n \div Pow10(6 - i)) % 10) + 1]]

(***************************************************************************)
(* Session values.  A session key that is absent is <<>>, a present one is *)
(* the one-element sequence of its value.                                  *)
(***************************************************************************)
Absent == <<>>
Some(v) == <<v>>
Val(o) == o[1]

\* the three doctor_access_<nid>... keys of one session, none of them set
NoGrant == [access |-> FALSE, email |-> Absent, reason |-> Absent]

\* request.session.get(key, '')
GetOr(o, default) == IF o = Absent THEN default ELSE Val(o)

(***************************************************************************)
(* Profiles and clients.  Odd profiles have an owner_email, even ones have *)
(* none (the field is blank=True).  Each session is one client.            *)
(***************************************************************************)
OwnerEmail(p) == IF p % 2 = 1 THEN <<"o", "@", "x">> ELSE Empty

\* _client_ip(request)
ClientIp(s) == s

\* _user_agent(request)
UserAgent(s) == s

(***************************************************************************)
(* Requests and responses.                                                 *)
(***************************************************************************)
\* the request handled last: the view, the session it carries, the profile it
\* names, the posted form, and `found`: the challenge that doctor_access read
\* from the session on entry (its local variable `pending`)
Req(view, s, p, method, action, email, code, reason, found) ==
    [view |-> view, session |-> s, profile |-> p, method |-> method,
     action |-> action, email |-> email, access_code |-> code, reason |-> reason,
     found |-> found]

\* no request since the clock last moved
NoReq == Req("", 0, 0, "", "", Missing, Missing, Missing, <<>>)

\* a response: the status, what is rendered or where it redirects to, the
\* template context of doctor_access.html, and the profile whose clinical
\* data the body carries (0: none)
Resp(status, page, error, otp_pending, email_value, otp_info, data) ==
    [status |-> status, page |-> page, error |-> error, otp_pending |-> otp_pending,
     email_value |-> email_value, otp_info |-> otp_info, data |-> data]

NoResp == Resp(0, "", "", FALSE, Empty, Empty, 0)

\* redirect(name, national_id = p)
Redirect(name) == Resp(302, name, "", FALSE, Empty, Empty, 0)

\* a rendered page or file that carries the data of profile p
Page(status, page, p) == Resp(status, page, "", FALSE, Empty, Empty, p)

\* render(request, 'medical/doctor_access.html', context, status = status)
AccessPage(status, error, otp_pending, email_value, otp_info) ==
    Resp(status, "doctor_access.html", error, otp_pending, email_value, otp_info, 0)

\* context['otp_pending'] and context['email_value'] as set at the top of doctor_access
CtxPending(pend) == pend # Absent
CtxEmail(pend) == IF pend # Absent THEN Val(pend).email ELSE Empty

(***************************************************************************)
(* doctor_access, action send_otp.                                         *)
(***************************************************************************)
\* mutant: the '@' is not asked for
ValidEmail_nonempty(email) == email # Empty

\* not (not email or '@' not in email)
ValidEmail(email) == email # Empty /\ Contains(email, "@")

\* mutant: the life of the challenge is not added to the time of issue
NewChallenge_nottl(email, n, t) ==
    [email |-> email, code |-> Format06d(n), expires_at |-> t, attempts |-> 0]

\* the challenge that send_otp stores, issued at time t with randbelow() = n
NewChallenge(email, n, t) ==
    [email |-> email, code |-> Format06d(n),
     expires_at |-> t + Minutes(OTP_TTL_MINUTES), attempts |-> 0]

\* mutant: the challenge is stored only when the message was delivered
StoredChallenge_ifsent(pend, email, n, t, mail) ==
    IF mail = "sent" THEN Some(NewChallenge(email, n, t)) ELSE pend

\* the otp_pending key after send_otp: it is written before send_mail is
\* called, whatever send_mail then does
\* mutant: a new challenge takes over the attempts of the one it replaces
StoredChallenge_carry(pend, email, n, t, mail) ==
    Some([NewChallenge(email, n, t) EXCEPT
            !.attempts = IF pend # Absent THEN Val(pend).attempts ELSE 0])

StoredChallenge(pend, email, n, t, mail) == Some(NewChallenge(email, n, t))

OtpMail(email, code, outcome) ==
    [to |-> email, kind |-> "otp", code |-> code, outcome |-> outcome]

\* send_mail(fail_silently = True): the message is delivered or the failure is
\* swallowed; the view goes on in both cases
OtpMailOutcomes == {"sent", "failed"}

SendOtp(s, p, email_raw, n) ==
    LET email == Field(email_raw)
        pend == pending[s][p]
    IN  /\ req' = Req("doctor_access", s, p, "POST", "send_otp", email_raw, Missing, Missing, pend)
        /\ IF ~ValidEmail(email)
           THEN /\ resp' = AccessPage(400, "Enter a valid email address to receive the OTP.",
                                      CtxPending(pend), CtxEmail(pend), Empty)
                /\ mails' = <<>>
                /\ UNCHANGED <<pending, tried>>
           ELSE /\ \E mail \in OtpMailOutcomes :
                        /\ pending' = [pending EXCEPT ![s][p] =
                                            StoredChallenge(pend, email, n, now, mail)]
                        /\ mails' = <<OtpMail(email, Format06d(n), mail)>>
                /\ tried' = [tried EXCEPT ![s][p] = 0]
                /\ resp' = AccessPage(200, "", TRUE, email, email)
        /\ UNCHANGED <<now, ticks, grant, log, notices, inflight, verifying>>

(***************************************************************************)
(* doctor_access, action verify_otp.                                       *)
(***************************************************************************)
\* mutant: the challenge is taken as expired from the second of its expiry on
IsExpired_ge(t, expires_at) == t >= expires_at

\* timezone.now() > expires_at
IsExpired(t, expires_at) == t > expires_at

\* mutant: one attempt more is let through before the lock
AttemptsExhausted_gt(attempts) == attempts > OTP_MAX_ATTEMPTS

\* attempts >= max_attempts
AttemptsExhausted(attempts) == attempts >= OTP_MAX_ATTEMPTS

\* mutant: any non-empty code is accepted
CodeMatches_any(code_input, code) == code_input # Empty

\* code_input and code_input == pending.get('code')
CodeMatches(code_input, code) == code_input # Empty /\ code_input = code

\* mutant: the reason is checked before the attempts
VerifyOutcome_reason_first(pend, t, code_input, reason) ==
    IF pend = Absent THEN "no_challenge"
    ELSE IF IsExpired(t, Val(pend).expires_at) THEN "expired"
    ELSE IF reason = Empty THEN "reason_required"
    ELSE IF AttemptsExhausted(Val(pend).attempts) THEN "too_many_attempts"
    ELSE IF CodeMatches(code_input, Val(pend).code) THEN "success"
    ELSE "invalid_code"

\* mutant: a wrong code is counted before the reason is looked at
VerifyOutcome_code_first(pend, t, code_input, reason) ==
    IF pend = Absent THEN "no_challenge"
    ELSE IF IsExpired(t, Val(pend).expires_at) THEN "expired"
    ELSE IF AttemptsExhausted(Val(pend).attempts) THEN "too_many_attempts"
    ELSE IF ~CodeMatches(code_input, Val(pend).code) THEN "invalid_code"
    ELSE IF reason = Empty THEN "reason_required"
    ELSE "success"

\* the branch of verify_otp that answers the request
VerifyOutcome(pend, t, code_input, reason) ==
    IF pend = Absent THEN "no_challenge"
    ELSE IF IsExpired(t, Val(pend).expires_at) THEN "expired"
    ELSE IF AttemptsExhausted(Val(pend).attempts) THEN "too_many_attempts"
    ELSE IF reason = Empty THEN "reason_required"
    ELSE IF CodeMatches(code_input, Val(pend).code) THEN "success"
    ELSE "invalid_code"

\* mutant: a verified challenge is not deleted
VerifyPending_keep(pend, outcome) ==
    CASE outcome = "expired" -> Absent
      [] outcome = "invalid_code" ->
            Some([Val(pend) EXCEPT !.attempts = Val(pend).attempts + 1])
      [] OTHER -> pend

\* mutant: a request refused by the lock is counted as an attempt too
VerifyPending_countlocked(pend, outcome) ==
    CASE outcome = "expired" -> Absent
      [] outcome = "success" -> Absent
      [] outcome \in {"invalid_code", "too_many_attempts"} ->
            Some([Val(pend) EXCEPT !.attempts = Val(pend).attempts + 1])
      [] OTHER -> pend

\* mutant: a wrong code is not counted
VerifyPending_noinc(pend, outcome) ==
    CASE outcome = "expired" -> Absent
      [] outcome = "success" -> Absent
      [] OTHER -> pend

\* the challenge after a verify_otp with that outcome
VerifyPending(pend, outcome) ==
    CASE outcome = "expired" -> Absent
      [] outcome = "success" -> Absent
      [] outcome = "invalid_code" ->
            Some([Val(pend) EXCEPT !.attempts = Val(pend).attempts + 1])
      [] OTHER -> pend

\* mutant: a request refused by the lock revokes the grant
VerifyGrant_revoke(g, pend, outcome, reason) ==
    IF outcome = "success"
    THEN [access |-> TRUE, email |-> Some(Val(pend).email), reason |-> Some(reason)]
    ELSE IF outcome = "too_many_attempts" THEN NoGrant ELSE g

\* mutant: the email of the verifier is not recorded with the grant
VerifyGrant_noemail(g, pend, outcome, reason) ==
    IF outcome = "success"
    THEN [access |-> TRUE, email |-> g.email, reason |-> Some(reason)]
    ELSE g

\* the doctor_access_<nid>, _email and _reason keys after a verify_otp
VerifyGrant(g, pend, outcome, reason) ==
    IF outcome = "success"
    THEN [access |-> TRUE, email |-> Some(Val(pend).email), reason |-> Some(reason)]
    ELSE g

\* the outcomes in which line 222 compared the submitted code with the
\* stored one
Compared(outcome) == outcome \in {"success", "invalid_code"}

\* the number of codes compared so far with the code of the challenge that
\* was issued last
Tried(k, outcome) == IF Compared(outcome) THEN k + 1 ELSE k

VerifyResp(pend, outcome) ==
    CASE outcome = "no_challenge" ->
            AccessPage(400, "Request an OTP first by entering your email.",
                       CtxPending(pend), CtxEmail(pend), Empty)
      [] outcome = "expired" ->
            AccessPage(400, "The OTP has expired. Please request a new one.",
                       FALSE, Empty, Empty)
      [] outcome = "too_many_attempts" ->
            AccessPage(429, "Too many attempts. Please request a new OTP.",
                       CtxPending(pend), CtxEmail(pend), Empty)
      [] outcome = "reason_required" ->
            AccessPage(400, "Reason for access is required.", TRUE, Val(pend).email, Empty)
      [] outcome = "success" -> Redirect("doctor_profile")
      [] outcome = "invalid_code" ->
            AccessPage(401, "Invalid code. Please try again.", TRUE, Val(pend).email, Empty)

VerifyOtp(s, p, code_raw, reason_raw) ==
    LET code_input == Field(code_raw)
        reason == Field(reason_raw)
        pend == pending[s][p]
        outcome == VerifyOutcome(pend, now, code_input, reason)
    IN  /\ req' = Req("doctor_access", s, p, "POST", "verify_otp", Missing, code_raw, reason_raw,
                    pend)
        /\ pending' = [pending EXCEPT ![s][p] = VerifyPending(pend, outcome)]
        /\ grant' = [grant EXCEPT ![s][p] = VerifyGrant(grant[s][p], pend, outcome, reason)]
        /\ tried' = [tried EXCEPT ![s][p] = Tried(tried[s][p], outcome)]
        /\ resp' = VerifyResp(pend, outcome)
        /\ mails' = <<>>
        /\ UNCHANGED <<now, ticks, log, notices, inflight, verifying>>

(***************************************************************************)
(* doctor_access, any other POST action, and GET.                          *)
(***************************************************************************)
UnknownAction(s, p, action) ==
    /\ action \notin {"send_otp", "verify_otp"}
    /\ req' = Req("doctor_access", s, p, "POST", action, Missing, Missing, Missing,
                pending[s][p])
    /\ resp' = AccessPage(400, "Invalid action.",
                          CtxPending(pending[s][p]), CtxEmail(pending[s][p]), Empty)
    /\ mails' = <<>>
    /\ UNCHANGED <<now, ticks, pending, grant, log, notices, inflight, tried, verifying>>

DoctorAccessGet(s, p) ==
    /\ req' = Req("doctor_access", s, p, "GET", "", Missing, Missing, Missing, pending[s][p])
    /\ resp' = AccessPage(200, "", CtxPending(pending[s][p]), CtxEmail(pending[s][p]), Empty)
    /\ mails' = <<>>
    /\ UNCHANGED <<now, ticks, pending, grant, log, notices, inflight, tried, verifying>>

(***************************************************************************)
(* verify_otp step by step, for requests of one session that are handled   *)
(* at the same time by different workers.  The session middleware loads    *)
(* the whole session when the view first reads it (line 139) and, if the   *)
(* view modified it, saves the whole of the worker's copy with the         *)
(* response; the last save wins.                                           *)
(***************************************************************************)
Workers == {1, 2}

\* a worker that is not handling a verify_otp
NotVerifying ==
    [pc |-> "idle", session |-> 0, profile |-> 0, pending |-> <<>>, grant |-> <<>>,
     code |-> Missing, reason |-> Missing]

\* lines 134-154: the worker loads the session of the request
VerifyOtpRead(w, s, p, code_raw, reason_raw) ==
    /\ verifying[w] = NotVerifying
    /\ verifying' = [verifying EXCEPT ![w] =
                        [pc |-> "loaded", session |-> s, profile |-> p,
                         pending |-> pending[s], grant |-> grant[s],
                         code |-> code_raw, reason |-> reason_raw]]
    /\ req' = Req("doctor_access", s, p, "POST", "verify_otp", Missing, code_raw, reason_raw,
                pending[s][p])
    /\ resp' = NoResp
    /\ mails' = <<>>
    /\ UNCHANGED <<now, ticks, pending, grant, tried, log, notices, inflight>>

\* the outcomes that set request.session.modified (lines 199, 230, 236)
SessionModified(outcome) == outcome \in {"expired", "success", "invalid_code"}

\* lines 155-241 on the worker's copy of the session, and the save of that
\* copy with the response
VerifyOtpWrite(w) ==
    LET s == verifying[w].session
        p == verifying[w].profile
        code_input == Field(verifying[w].code)
        reason == Field(verifying[w].reason)
        pend == verifying[w].pending[p]
        g == verifying[w].grant[p]
        outcome == VerifyOutcome(pend, now, code_input, reason)
    IN  /\ verifying[w].pc = "loaded"
        /\ req' = Req("doctor_access", s, p, "POST", "verify_otp", Missing,
                    verifying[w].code, verifying[w].reason, pend)
        /\ IF SessionModified(outcome)
           THEN /\ pending' = [pending EXCEPT ![s] =
                                  [verifying[w].pending EXCEPT ![p] = VerifyPending(pend, outcome)]]
                /\ grant' = [grant EXCEPT ![s] =
                                [verifying[w].grant EXCEPT ![p] =
                                    VerifyGrant(g, pend, outcome, reason)]]
           ELSE UNCHANGED <<pending, grant>>
        /\ tried' = [tried EXCEPT ![s][p] = Tried(tried[s][p], outcome)]
        /\ resp' = VerifyResp(pend, outcome)
        /\ mails' = <<>>
        /\ verifying' = [verifying EXCEPT ![w] = NotVerifying]
        /\ UNCHANGED <<now, ticks, log, notices, inflight>>

(***************************************************************************)
(* The access log and the owner notification.                              *)
(***************************************************************************)
\* a session with no protected view in the middle of its handling
Idle == [pc |-> "idle", profile |-> 0, entry |-> 0]

\* mutant: the entry is created with the flag set
LogEntry_notified(p, event_type, viewer_email, reason, s, t) ==
    [profile |-> p, event_type |-> event_type, viewer_email |-> viewer_email,
     reason |-> reason, ip_address |-> ClientIp(s), user_agent |-> UserAgent(s),
     created_at |-> t, notified |-> TRUE]

\* AccessLog.objects.create(...) at time t; notified defaults to False
LogEntry(p, event_type, viewer_email, reason, s, t) ==
    [profile |-> p, event_type |-> event_type, viewer_email |-> viewer_email,
     reason |-> reason, ip_address |-> ClientIp(s), user_agent |-> UserAgent(s),
     created_at |-> t, notified |-> FALSE]

\* mutant: the entry is written without the reason of the grant
DoctorEntry_noreason(s, p, event_type, t) ==
    LogEntry(p, event_type, GetOr(grant[s][p].email, Empty), Empty, s, t)

\* the entry a protected view of session s writes for profile p
DoctorEntry(s, p, event_type, t) ==
    LogEntry(p, event_type, GetOr(grant[s][p].email, Empty),
             GetOr(grant[s][p].reason, Empty), s, t)

\* AccessLog.objects.filter(profile, event_type, notified = True,
\*                          created_at__gte = since).exists()
Recent(lg, p, event_type, t) ==
    \E i \in 1..Len(lg) :
        /\ lg[i].profile = p
        /\ lg[i].event_type = event_type
        /\ lg[i].notified
        /\ lg[i].created_at >= t - Minutes(ACCESS_NOTIFY_COOLDOWN_MINUTES)

\* mutant: the owner email is not looked at
NotifyDue_noowner(lg, p, event_type, t) == ~Recent(lg, p, event_type, t)

\* whether _notify_owner_if_needed reaches send_mail
NotifyDue(lg, p, event_type, t) ==
    OwnerEmail(p) # Empty /\ ~Recent(lg, p, event_type, t)

\* the message describes log_obj: its event type, viewer and reason
OwnerMail(p, entry, idx, outcome) ==
    [to |-> OwnerEmail(p), kind |-> "notify", event_type |-> entry.event_type,
     entry |-> idx, outcome |-> outcome]

\* mutant: the save writes the flag of every entry, true for log_obj only
Flagged_only(lg, idx, mail) ==
    IF mail # "raised"
    THEN [i \in 1..Len(lg) |-> [lg[i] EXCEPT !.notified = (i = idx)]]
    ELSE lg

\* lines 279-283: send_mail(fail_silently = True) delivers ("sent"), fails
\* silently ("failed") or raises ("raised"); unless it raises,
\* log_obj.notified = True is saved with update_fields = ['notified']
Flagged(lg, idx, mail) ==
    IF mail # "raised"
    THEN [lg EXCEPT ![idx].notified = TRUE]
    ELSE lg

\* the log after _notify_owner_if_needed(profile, event_type, log_obj), log_obj
\* being entry idx of lg
NotifyLog(lg, p, event_type, idx, t, mail) ==
    IF NotifyDue(lg, p, event_type, t)
    THEN Flagged(lg, idx, mail)
    ELSE lg

\* the mails _notify_owner_if_needed hands to send_mail
NotifyMails(lg, p, event_type, idx, t, mail) ==
    IF NotifyDue(lg, p, event_type, t)
    THEN <<OwnerMail(p, lg[idx], idx, mail)>>
    ELSE <<>>

\* the owner notifications delivered so far, each with the profile and the
\* event type it reports and the time of its dispatch
Notice(p, entry, idx, t) ==
    [profile |-> p, event_type |-> entry.event_type, entry |-> idx, at |-> t]

NotifyNotices(ns, lg, p, event_type, idx, t, mail) ==
    IF NotifyDue(lg, p, event_type, t) /\ mail = "sent"
    THEN ns \cup {Notice(p, lg[idx], idx, t)}
    ELSE ns

NotifyMailOutcomes == {"sent", "failed", "raised"}

\* mutant: when the write of the entry raises, the owner is notified all the same
LogAndNotify_mailonfail(s, p, event_type, notify_type) ==
    \/ LET lg == Append(log, DoctorEntry(s, p, event_type, now))
       IN  \E mail \in NotifyMailOutcomes :
               /\ log' = NotifyLog(lg, p, notify_type, Len(lg), now, mail)
               /\ mails' = NotifyMails(lg, p, notify_type, Len(lg), now, mail)
               /\ notices' = NotifyNotices(notices, lg, p, notify_type, Len(lg), now, mail)
    \/ /\ mails' = <<OwnerMail(p, DoctorEntry(s, p, event_type, now), 0, "sent")>>
       /\ UNCHANGED <<log, notices>>

\* the body shared by the protected views that log: the entry is written, or
\* the write raises and is passed over; then the owner is notified under
\* notify_type
LogAndNotify(s, p, event_type, notify_type) ==
    \/ LET lg == Append(log, DoctorEntry(s, p, event_type, now))
       IN  \E mail \in NotifyMailOutcomes :
               /\ log' = NotifyLog(lg, p, notify_type, Len(lg), now, mail)
               /\ mails' = NotifyMails(lg, p, notify_type, Len(lg), now, mail)
               /\ notices' = NotifyNotices(notices, lg, p, notify_type, Len(lg), now, mail)
    \/ /\ mails' = <<>>
       /\ UNCHANGED <<log, notices>>

\* mutant: the grant of any profile of the session opens the view
HasAccess_any(s, p) == \E q \in Profiles : grant[s][q].access

\* mutant: the grant of any session for the profile opens the view
HasAccess_anysession(s, p) == \E t \in Sessions : grant[t][p].access

\* request.session.get(f'doctor_access_{national_id}')
HasAccess(s, p) == grant[s][p].access

View(name, s, p) == Req(name, s, p, "GET", "", Missing, Missing, Missing, <<>>)

DoctorProfileView(s, p) ==
    /\ req' = View("doctor_profile_view", s, p)
    /\ IF ~HasAccess(s, p)
       THEN /\ resp' = Redirect("doctor_access")
            /\ mails' = <<>>
            /\ UNCHANGED <<log, notices>>
       ELSE /\ LogAndNotify(s, p, "doctor_view", "doctor_view")
            /\ resp' = Page(200, "doctor_profile.html", p)
    /\ UNCHANGED <<now, ticks, pending, grant, inflight, tried, verifying>>

DoctorProfileDownload(s, p) ==
    /\ req' = View("doctor_profile_download", s, p)
    /\ IF ~HasAccess(s, p)
       THEN /\ resp' = Redirect("doctor_access")
            /\ mails' = <<>>
            /\ UNCHANGED <<log, notices>>
       ELSE /\ LogAndNotify(s, p, "download_html", "download_html")
            /\ resp' = Page(200, "doctor_profile_download.html", p)
    /\ UNCHANGED <<now, ticks, pending, grant, inflight, tried, verifying>>

\* the PDF is built, or weasyprint cannot be imported (501)
DoctorProfileDownloadPdf(s, p) ==
    /\ req' = View("doctor_profile_download_pdf", s, p)
    /\ IF ~HasAccess(s, p)
       THEN /\ resp' = Redirect("doctor_access")
            /\ mails' = <<>>
            /\ UNCHANGED <<log, notices>>
       ELSE /\ LogAndNotify(s, p, "download_pdf", "download_pdf")
            /\ \/ resp' = Page(200, "medical_profile.pdf", p)
               \/ resp' = Page(501, "PDF generation is not available", 0)
    /\ UNCHANGED <<now, ticks, pending, grant, inflight, tried, verifying>>

\* the entry is a doctor_health_view, the notification is asked for 'doctor_view'
DoctorHealthMonitoringView(s, p) ==
    /\ req' = View("doctor_health_monitoring_view", s, p)
    /\ IF ~HasAccess(s, p)
       THEN /\ resp' = Redirect("doctor_access")
            /\ mails' = <<>>
            /\ UNCHANGED <<log, notices>>
       ELSE /\ LogAndNotify(s, p, "doctor_health_view", "doctor_view")
            /\ resp' = Page(200, "health_monitoring_clinician.html", p)
    /\ UNCHANGED <<now, ticks, pending, grant, inflight, tried, verifying>>

(***************************************************************************)
(* doctor_profile_view step by step, for requests that are handled at the  *)
(* same time by different workers: the entry is written, then              *)
(* _notify_owner_if_needed queries the log, then it sends the message and  *)
(* flags the entry.  Requests of other sessions may run between the steps. *)
(***************************************************************************)
\* lines 287-303: the gate is passed and the entry is written, or the write
\* raises and the page is rendered at once
DoctorProfileViewBegin(s, p) ==
    /\ inflight[s] = Idle
    /\ HasAccess(s, p)
    /\ req' = View("doctor_profile_view", s, p)
    /\ mails' = <<>>
    /\ \/ /\ log' = Append(log, DoctorEntry(s, p, "doctor_view", now))
          /\ inflight' = [inflight EXCEPT ![s] =
                              [pc |-> "check", profile |-> p, entry |-> Len(log) + 1]]
          /\ resp' = NoResp
       \/ /\ resp' = Page(200, "doctor_profile.html", p)
          /\ UNCHANGED <<log, inflight, tried, verifying>>
    /\ UNCHANGED <<now, ticks, pending, grant, notices, tried, verifying>>

\* lines 253-262: the owner email and the query for a recent notified entry
NotifyOwnerCheck(s) ==
    LET p == inflight[s].profile
    IN  /\ inflight[s].pc = "check"
        /\ req' = View("doctor_profile_view", s, p)
        /\ mails' = <<>>
        /\ IF NotifyDue(log, p, "doctor_view", now)
           THEN /\ inflight' = [inflight EXCEPT ![s].pc = "send"]
                /\ resp' = NoResp
           ELSE /\ inflight' = [inflight EXCEPT ![s] = Idle]
                /\ resp' = Page(200, "doctor_profile.html", p)
        /\ UNCHANGED <<now, ticks, pending, grant, log, notices, tried, verifying>>

\* lines 264-283 and 308: send_mail, the notified flag of the entry of this
\* request, and the page
NotifyOwnerSend(s) ==
    LET p == inflight[s].profile
        idx == inflight[s].entry
    IN  /\ inflight[s].pc = "send"
        /\ req' = View("doctor_profile_view", s, p)
        /\ \E mail \in NotifyMailOutcomes :
                /\ mails' = <<OwnerMail(p, log[idx], idx, mail)>>
                /\ log' = Flagged(log, idx, mail)
                /\ notices' = IF mail = "sent"
                              THEN notices \cup {Notice(p, log[idx], idx, now)}
                              ELSE notices
        /\ inflight' = [inflight EXCEPT ![s] = Idle]
        /\ resp' = Page(200, "doctor_profile.html", p)
        /\ UNCHANGED <<now, ticks, pending, grant, tried, verifying>>

HealthDataGet(s, p) ==
    /\ req' = View("health_data_get", s, p)
    /\ resp' = IF ~HasAccess(s, p)
               THEN Resp(403, "json", "Unauthorized", FALSE, Empty, Empty, 0)
               ELSE Page(200, "json", p)
    /\ mails' = <<>>
    /\ UNCHANGED <<now, ticks, pending, grant, log, notices, inflight, tried, verifying>>

\* mutant: the public view flags its entry as notified
PublicProfile_flagged(s, p) ==
    /\ req' = View("public_profile", s, p)
    /\ \/ log' = Append(log, [LogEntry(p, "public_view", Empty, Empty, s, now)
                                  EXCEPT !.notified = TRUE])
       \/ UNCHANGED log
    /\ resp' = Resp(200, "public_profile.html", "", FALSE, Empty, Empty, 0)
    /\ mails' = <<>>
    /\ UNCHANGED notices
    /\ UNCHANGED <<now, ticks, pending, grant, inflight, tried, verifying>>

PublicProfile(s, p) ==
    /\ req' = View("public_profile", s, p)
    /\ \/ log' = Append(log, LogEntry(p, "public_view", Empty, Empty, s, now))
       \/ UNCHANGED log
    /\ resp' = Resp(200, "public_profile.html", "", FALSE, Empty, Empty, 0)
    /\ mails' = <<>>
    /\ UNCHANGED notices
    /\ UNCHANGED <<now, ticks, pending, grant, inflight, tried, verifying>>

(***************************************************************************)
(* Time passes between requests; no request is being answered.             *)
(***************************************************************************)
Tick(d) ==
    /\ ticks < MaxTicks
    /\ now' = now + d
    /\ ticks' = ticks + 1
    /\ req' = NoReq
    /\ resp' = NoResp
    /\ mails' = <<>>
    /\ UNCHANGED <<pending, grant, log, notices, inflight, tried, verifying>>

(***************************************************************************)
(* The initial state: fresh sessions, an empty log.                        *)
(***************************************************************************)
Init ==
    /\ now = 0
    /\ ticks = 0
    /\ pending = [s \in Sessions |-> [p \in Profiles |-> Absent]]
    /\ grant = [s \in Sessions |-> [p \in Profiles |-> NoGrant]]
    /\ tried = [s \in Sessions |-> [p \in Profiles |-> 0]]
    /\ verifying = [w \in Workers |-> NotVerifying]
    /\ log = <<>>
    /\ notices = {}
    /\ inflight = [s \in Sessions |-> Idle]
    /\ mails = <<>>
    /\ req = NoReq
    /\ resp = NoResp

(***************************************************************************)
(* Inputs of the requests.                                                 *)
(***************************************************************************)
\* values of secrets.randbelow(1000000)
CodeNumbers == {42, 123456}

EmailInputs == {Missing, <<"a", "x">>, <<"a", "@", "x">>, <<" ", "b", "@", "x", " ">>}

CodeInputs ==
    {Missing, <<"4", "2">>, Format06d(42), <<" ">> \o Format06d(123456) \o <<" ">>}

ReasonInputs == {Missing, <<" ">>, <<"r", " ">>}

\* time steps: one second, and one second less than the life of a challenge
TickSteps == {1, Minutes(OTP_TTL_MINUTES) - 1}

(***************************************************************************)
(* Spec: the challenge of one session for one profile, with every input    *)
(* of send_otp and verify_otp, and time passing.                           *)
(***************************************************************************)
Next ==
    \/ DoctorAccessGet(1, 1)
    \/ \E e \in EmailInputs, n \in CodeNumbers : SendOtp(1, 1, e, n)
    \/ \E c \in CodeInputs, r \in ReasonInputs : VerifyOtp(1, 1, c, r)
    \/ UnknownAction(1, 1, "resend")
    \/ HealthDataGet(1, 1)
    \/ \E d \in TickSteps : Tick(d)

Spec == Init /\ [][Next]_vars

(***************************************************************************)
(* SpecGate: every view.  Session 1 works on both profiles and session 2   *)
(* on profile 1; the code that is submitted is the issued one and no time  *)
(* passes.                                                                 *)
(***************************************************************************)
GatePairs == {<<1, 1>>, <<1, 2>>, <<2, 1>>}
GateReasons == {<<" ">>, <<"r">>}

\* a request that would write to the log is taken only while the log has
\* fewer than cap entries
LogRoom(s, p, cap) == HasAccess(s, p) => Len(log) < cap

NextGate ==
    \/ \E sp \in GatePairs : DoctorAccessGet(sp[1], sp[2])
    \/ \E sp \in GatePairs : SendOtp(sp[1], sp[2], <<"a", "@", "x">>, 42)
    \/ \E sp \in GatePairs, r \in GateReasons : VerifyOtp(sp[1], sp[2], Format06d(42), r)
    \/ \E sp \in GatePairs : UnknownAction(sp[1], sp[2], "resend")
    \/ \E sp \in GatePairs :
            LogRoom(sp[1], sp[2], MaxLog) /\ DoctorProfileView(sp[1], sp[2])
    \/ \E sp \in GatePairs :
            LogRoom(sp[1], sp[2], MaxLog) /\ DoctorProfileDownload(sp[1], sp[2])
    \/ \E sp \in GatePairs :
            LogRoom(sp[1], sp[2], MaxLog) /\ DoctorProfileDownloadPdf(sp[1], sp[2])
    \/ \E sp \in GatePairs :
            LogRoom(sp[1], sp[2], MaxLog) /\ DoctorHealthMonitoringView(sp[1], sp[2])
    \/ \E sp \in GatePairs : HealthDataGet(sp[1], sp[2])
    \/ \E sp \in GatePairs : Len(log) < MaxLog /\ PublicProfile(sp[1], sp[2])

SpecGate == Init /\ [][NextGate]_vars

(***************************************************************************)
(* SpecLog: the access log and the owner notification over time.  One      *)
(* session obtains the grant of profile 1, which has an owner email, and   *)
(* then uses the four logging views while minutes pass.                    *)
(***************************************************************************)
\* time steps: T + 10 min, T + 30 min and T + 31 min can be reached
LogSteps == {Minutes(10), Minutes(20), Minutes(1)}

NextLog ==
    \/ ~HasAccess(1, 1) /\ SendOtp(1, 1, <<"a", "@", "x">>, 42)
    \/ ~HasAccess(1, 1) /\ VerifyOtp(1, 1, Format06d(42), <<"r">>)
    \/ LogRoom(1, 1, MaxEvents) /\ DoctorProfileView(1, 1)
    \/ LogRoom(1, 1, MaxEvents) /\ DoctorProfileDownload(1, 1)
    \/ LogRoom(1, 1, MaxEvents) /\ DoctorProfileDownloadPdf(1, 1)
    \/ LogRoom(1, 1, MaxEvents) /\ DoctorHealthMonitoringView(1, 1)
    \/ \E d \in LogSteps : HasAccess(1, 1) /\ Tick(d)

SpecLog == Init /\ [][NextLog]_vars

(***************************************************************************)
(* SpecRace: two sessions obtain the grant of profile 1 and request        *)
(* doctor_profile_view, the requests being handled step by step and in any *)
(* order, while minutes pass.                                              *)
(***************************************************************************)
RaceSessions == {1, 2}

NextRace ==
    \/ \E s \in RaceSessions : ~HasAccess(s, 1) /\ SendOtp(s, 1, <<"a", "@", "x">>, 42)
    \/ \E s \in RaceSessions : ~HasAccess(s, 1) /\ VerifyOtp(s, 1, Format06d(42), <<"r">>)
    \/ \E s \in RaceSessions : Len(log) < MaxEvents /\ DoctorProfileViewBegin(s, 1)
    \/ \E s \in RaceSessions : NotifyOwnerCheck(s)
    \/ \E s \in RaceSessions : NotifyOwnerSend(s)
    \/ \E d \in LogSteps : (\A s \in RaceSessions : HasAccess(s, 1)) /\ Tick(d)

SpecRace == Init /\ [][NextRace]_vars

(***************************************************************************)
(* SpecVerify: one challenge is issued to session 1 for profile 1, and two *)
(* workers handle verify_otp requests of that session step by step and in  *)
(* any order, with a wrong and with the right code.                        *)
(***************************************************************************)
VerifyCodes == {<<"4", "2">>, Format06d(42)}

NextVerify ==
    \/ /\ pending[1][1] = Absent /\ tried[1][1] = 0 /\ ~HasAccess(1, 1)
       /\ \A w \in Workers : verifying[w] = NotVerifying
       /\ SendOtp(1, 1, <<"a", "@", "x">>, 42)
    \/ \E w \in Workers, c \in VerifyCodes :
            tried[1][1] < MaxTried /\ VerifyOtpRead(w, 1, 1, c, <<"r">>)
    \/ \E w \in Workers : VerifyOtpWrite(w)

SpecVerify == Init /\ [][NextVerify]_vars

(***************************************************************************)
(* SpecPublic: public views of profile 1 by any session, mixed with        *)
(* doctor_profile_view requests of session 1, which holds the grant, while *)
(* minutes pass.                                                           *)
(***************************************************************************)
NextPublic ==
    \/ ~HasAccess(1, 1) /\ SendOtp(1, 1, <<"a", "@", "x">>, 42)
    \/ ~HasAccess(1, 1) /\ VerifyOtp(1, 1, Format06d(42), <<"r">>)
    \/ \E s \in Sessions : Len(log) < MaxEvents /\ PublicProfile(s, 1)
    \/ LogRoom(1, 1, MaxEvents) /\ DoctorProfileView(1, 1)
    \/ \E d \in LogSteps : HasAccess(1, 1) /\ Tick(d)

SpecPublic == Init /\ [][NextPublic]_vars

(***************************************************************************)
(* Vocabulary of the properties.                                           *)
(***************************************************************************)
IsSend(r) == r.view = "doctor_access" /\ r.method = "POST" /\ r.action = "send_otp"
IsVerify(r) == r.view = "doctor_access" /\ r.method = "POST" /\ r.action = "verify_otp"

\* the posted fields as the view reads them
PostedEmail(r) == Field(r.email)
PostedCode(r) == Field(r.access_code)
PostedReason(r) == Field(r.reason)

SamePair(r1, r2) == r1.session = r2.session /\ r1.profile = r2.profile

ErrEmail == "Enter a valid email address to receive the OTP."
ErrNoChallenge == "Request an OTP first by entering your email."
ErrExpired == "The OTP has expired. Please request a new one."
ErrTooMany == "Too many attempts. Please request a new OTP."
ErrReason == "Reason for access is required."
ErrInvalidCode == "Invalid code. Please try again."

\* the answer of a successful verification: the redirect to the doctor view
Granted(r) == r.status = 302 /\ r.page = "doctor_profile"
Failed(r, status, error) ==
    r.status = status /\ r.error = error /\ r.page = "doctor_access.html"

(***************************************************************************)
(* C1: after a send_otp with a valid email, an immediately following       *)
(* verify_otp of the same session and profile with the issued code and a   *)
(* non-empty reason succeeds: it answers with the redirect, sets the grant *)
(* and deletes the challenge.  A verify_otp that directly follows a        *)
(* successful one with the same code and reason fails with the 'request an *)
(* OTP first' error, so an issued code verifies at most once.              *)
(***************************************************************************)
C1_IssueVerifyOnce ==
    [][IsVerify(req') =>
        LET s == req'.session
            p == req'.profile
        IN  /\ (/\ IsSend(req) /\ SamePair(req, req')
                /\ PostedEmail(req) # Empty /\ Contains(PostedEmail(req), "@"))
               => /\ pending[s][p] # Absent
                  /\ (/\ PostedCode(req') = Val(pending[s][p]).code
                      /\ PostedReason(req') # Empty)
                     => /\ Granted(resp')
                        /\ grant'[s][p].access
                        /\ pending'[s][p] = Absent
            /\ (/\ IsVerify(req) /\ SamePair(req, req') /\ Granted(resp)
                /\ req'.access_code = req.access_code
                /\ req'.reason = req.reason)
               => /\ Failed(resp', 400, ErrNoChallenge)
                  /\ pending'[s][p] = Absent
                  /\ grant'[s][p] = grant[s][p]
    ]_vars

\* a verify_otp with a code and a reason found no challenge, in a session that
\* holds the grant of an earlier verification
C1_Witness ==
    /\ IsVerify(req)
    /\ PostedCode(req) = Format06d(42) /\ PostedReason(req) # Empty
    /\ req.found = Absent
    /\ Failed(resp, 400, ErrNoChallenge)
    /\ grant[req.session][req.profile].access

C3_VerifySucceedsIff ==
    [][IsVerify(req') =>
        LET s == req'.session
            p == req'.profile
            pend == pending[s][p]
            ok == /\ pend # Absent
                  /\ ~(now > Val(pend).expires_at)
                  /\ Val(pend).attempts < OTP_MAX_ATTEMPTS
                  /\ PostedReason(req') # Empty
                  /\ PostedCode(req') # Empty
                  /\ PostedCode(req') = Val(pend).code
        IN  /\ Granted(resp') <=> ok
            /\ ok => grant'[s][p].access
            /\ ~ok => grant'[s][p] = grant[s][p]
    ]_vars

\* the last permitted attempt, made at the very second of expiry, succeeds
C3_Witness ==
    /\ IsVerify(req) /\ Granted(resp)
    /\ req.found # Absent
    /\ Val(req.found).attempts = OTP_MAX_ATTEMPTS - 1
    /\ now = Val(req.found).expires_at

(***************************************************************************)
(* C4 as claimed: a request to any of the five protected endpoints from a  *)
(* session without the grant for that profile is answered with the         *)
(* redirect to doctor_access, carries no profile data, appends no          *)
(* access-log entry and sends no notification.                             *)
(***************************************************************************)
ProtectedPages ==
    {"doctor_profile_view", "doctor_profile_download", "doctor_profile_download_pdf",
     "doctor_health_monitoring_view"}

ProtectedViews == ProtectedPages \cup {"health_data_get"}

Ungranted(r) == r.view \in ProtectedViews /\ ~grant[r.session][r.profile].access

Withheld == resp'.data = 0 /\ log' = log /\ mails' = <<>>

C4_UngrantedRedirected ==
    [][Ungranted(req') =>
        /\ resp'.status = 302 /\ resp'.page = "doctor_access"
        /\ Withheld
    ]_vars

(***************************************************************************)
(* C4, amended: without the grant for that profile the four page and       *)
(* download views answer with the redirect to doctor_access, and           *)
(* health_data_get answers 403 with the JSON error 'Unauthorized'; none of *)
(* the five returns profile data, appends an access-log entry or sends a   *)
(* notification.                                                           *)
(***************************************************************************)
C4_UngrantedRefused ==
    [][Ungranted(req') =>
        /\ req'.view \in ProtectedPages =>
              resp'.status = 302 /\ resp'.page = "doctor_access"
        /\ req'.view = "health_data_get" =>
              resp'.status = 403 /\ resp'.error = "Unauthorized"
        /\ Withheld
    ]_vars

\* a page view is redirected although the session holds the grant of another
\* profile and another session holds the grant of this profile
C4_Witness ==
    /\ req.view = "doctor_profile_download_pdf"
    /\ ~grant[req.session][req.profile].access
    /\ resp.status = 302 /\ resp.page = "doctor_access"
    /\ \E q \in Profiles : grant[req.session][q].access
    /\ \E t \in Sessions : grant[t][req.profile].access
    /\ log # <<>>

(***************************************************************************)
(* C5: a pending challenge is answered as expired exactly when now is      *)
(* after expires_at, which send_otp sets to five minutes after the issue.  *)
(* A verify_otp one second after expires_at fails with the expired error   *)
(* and deletes the challenge; a challenge comes back only with a send_otp, *)
(* and a verify_otp that finds none fails with the 'request an OTP first'  *)
(* error.  A verify_otp one second before expires_at, and one at           *)
(* expires_at itself, with the stored code and a reason succeeds (the      *)
(* challenge not being locked).                                            *)
(***************************************************************************)
C5_ExpiryStrict ==
    [][/\ IsVerify(req') =>
            LET s == req'.session
                p == req'.profile
                pend == pending[s][p]
            IN  IF pend = Absent
                THEN Failed(resp', 400, ErrNoChallenge) /\ pending'[s][p] = Absent
                ELSE /\ Failed(resp', 400, ErrExpired) <=> now > Val(pend).expires_at
                     /\ now >= Val(pend).expires_at + 1 =>
                            Failed(resp', 400, ErrExpired) /\ pending'[s][p] = Absent
                     /\ (/\ now \in {Val(pend).expires_at - 1, Val(pend).expires_at}
                         /\ PostedCode(req') = Val(pend).code
                         /\ PostedReason(req') # Empty
                         /\ Val(pend).attempts < OTP_MAX_ATTEMPTS)
                        => Granted(resp')
       /\ \A s \in Sessions, p \in Profiles :
            (pending[s][p] = Absent /\ pending'[s][p] # Absent) =>
                /\ IsSend(req') /\ req'.session = s /\ req'.profile = p
                /\ Val(pending'[s][p]).expires_at = now + 5 * 60
    ]_vars

\* a verify_otp with the stored code and a reason, one second late
C5_Witness ==
    /\ IsVerify(req)
    /\ req.found # Absent
    /\ now = Val(req.found).expires_at + 1
    /\ PostedCode(req) = Val(req.found).code /\ PostedReason(req) # Empty
    /\ Val(req.found).attempts = 0
    /\ Failed(resp, 400, ErrExpired)
    /\ pending[req.session][req.profile] = Absent

(***************************************************************************)
(* C6: a verify_otp that finds an unexpired challenge with                 *)
(* OTP_MAX_ATTEMPTS (5) or more attempts fails with the too-many-attempts  *)
(* error and status 429, whatever code and reason it posts, and leaves the *)
(* challenge and the grant as they were.  A challenge that has reached the *)
(* limit changes only by a send_otp with a valid email, which replaces it, *)
(* or by a verify_otp after its expiry, which deletes it.                  *)
(***************************************************************************)
Locked(pend) == pend # Absent /\ Val(pend).attempts >= 5

C6_LockOut ==
    [][/\ IsVerify(req') =>
            LET s == req'.session
                p == req'.profile
                pend == pending[s][p]
            IN  (Locked(pend) /\ now <= Val(pend).expires_at) =>
                    /\ Failed(resp', 429, ErrTooMany)
                    /\ pending'[s][p] = pend
                    /\ grant'[s][p] = grant[s][p]
       /\ \A s \in Sessions, p \in Profiles :
            (Locked(pending[s][p]) /\ pending'[s][p] # pending[s][p]) =>
                /\ req'.session = s /\ req'.profile = p
                /\ \/ /\ IsSend(req')
                      /\ PostedEmail(req') # Empty /\ Contains(PostedEmail(req'), "@")
                      /\ pending'[s][p] # Absent
                      /\ Val(pending'[s][p]).attempts = 0
                   \/ /\ IsVerify(req')
                      /\ now > Val(pending[s][p]).expires_at
                      /\ pending'[s][p] = Absent
    ]_vars

\* the stored code and a reason are refused by the lock, at the last second
\* of the challenge
C6_Witness ==
    /\ IsVerify(req)
    /\ Failed(resp, 429, ErrTooMany)
    /\ req.found # Absent
    /\ Val(req.found).attempts = 5
    /\ PostedCode(req) = Val(req.found).code /\ PostedReason(req) # Empty
    /\ now = Val(req.found).expires_at
    /\ pending[req.session][req.profile] = req.found
    /\ ~grant[req.session][req.profile].access

(***************************************************************************)
(* C7 as claimed: a verify_otp with an empty or whitespace-only reason     *)
(* leaves the pending challenge, its attempts included, exactly as it was  *)
(* and does not set the grant, whatever the code.                          *)
(***************************************************************************)
C7_EmptyReasonNoChange ==
    [][(IsVerify(req') /\ PostedReason(req') = Empty) =>
            /\ pending'[req'.session][req'.profile] = pending[req'.session][req'.profile]
            /\ grant'[req'.session][req'.profile] = grant[req'.session][req'.profile]
    ]_vars

(***************************************************************************)
(* C7, amended: a verify_otp with an empty or whitespace-only reason never *)
(* changes the attempts counter and never sets the grant, whatever the     *)
(* code; it leaves the pending challenge exactly as it was unless the      *)
(* challenge has expired, in which case it deletes it.                     *)
(***************************************************************************)
C7_EmptyReasonNoAttempt ==
    [][(IsVerify(req') /\ PostedReason(req') = Empty) =>
            LET s == req'.session
                p == req'.profile
                pend == pending[s][p]
            IN  /\ grant'[s][p] = grant[s][p]
                /\ ~Granted(resp')
                /\ IF pend # Absent /\ now > Val(pend).expires_at
                   THEN pending'[s][p] = Absent
                   ELSE pending'[s][p] = pend
    ]_vars

\* a wrong code with a whitespace-only reason is not counted
C7_Witness ==
    /\ IsVerify(req)
    /\ req.reason = <<" ">>
    /\ req.found # Absent
    /\ PostedCode(req) # Val(req.found).code
    /\ Val(req.found).attempts = 2
    /\ pending[req.session][req.profile] = req.found
    /\ Failed(resp, 400, ErrReason)

(***************************************************************************)
(* C8: verify_otp reports the first failing check of: a challenge is       *)
(* pending, it has not expired, its attempts are below the limit, the      *)
(* reason is non-empty, the code matches.  An expired challenge yields the *)
(* expired error also when it is locked or the reason is empty; a locked,  *)
(* unexpired one yields too-many-attempts also when the reason is empty;   *)
(* the code decides the answer only when all four earlier checks pass.     *)
(***************************************************************************)
C8_CheckOrder ==
    [][IsVerify(req') =>
        LET pend == pending[req'.session][req'.profile]
        IN  IF pend = Absent THEN Failed(resp', 400, ErrNoChallenge)
            ELSE IF now > Val(pend).expires_at THEN Failed(resp', 400, ErrExpired)
            ELSE IF Val(pend).attempts >= 5 THEN Failed(resp', 429, ErrTooMany)
            ELSE IF PostedReason(req') = Empty THEN Failed(resp', 400, ErrReason)
            ELSE IF PostedCode(req') = Val(pend).code /\ PostedCode(req') # Empty
                 THEN Granted(resp')
                 ELSE Failed(resp', 401, ErrInvalidCode)
    ]_vars

\* a challenge that is expired and locked, verified with an empty reason
C8_Witness ==
    /\ IsVerify(req)
    /\ req.found # Absent
    /\ now > Val(req.found).expires_at
    /\ Val(req.found).attempts = 5
    /\ PostedReason(req) = Empty
    /\ Failed(resp, 400, ErrExpired)

(***************************************************************************)
(* C9: a verify_otp that passes the existence, expiry, attempts and reason *)
(* checks with a code different from the stored one (an empty code         *)
(* included) fails with the invalid-code error and status 401, adds        *)
(* exactly 1 to attempts and leaves the code, email and expires_at of the  *)
(* challenge, and the grant, unchanged.                                    *)
(***************************************************************************)
C9_WrongCodeCounted ==
    [][IsVerify(req') =>
        LET s == req'.session
            p == req'.profile
            pend == pending[s][p]
        IN  (/\ pend # Absent
             /\ now <= Val(pend).expires_at
             /\ Val(pend).attempts < 5
             /\ PostedReason(req') # Empty
             /\ PostedCode(req') # Val(pend).code)
            => /\ Failed(resp', 401, ErrInvalidCode)
               /\ pending'[s][p] # Absent
               /\ Val(pending'[s][p]).attempts = Val(pend).attempts + 1
               /\ Val(pending'[s][p]).code = Val(pend).code
               /\ Val(pending'[s][p]).email = Val(pend).email
               /\ Val(pending'[s][p]).expires_at = Val(pend).expires_at
               /\ grant'[s][p] = grant[s][p]
    ]_vars

\* an empty code is counted: the fifth attempt, which locks the challenge
C9_Witness ==
    /\ IsVerify(req)
    /\ PostedCode(req) = Empty
    /\ Failed(resp, 401, ErrInvalidCode)
    /\ req.found # Absent
    /\ Val(req.found).attempts = 4
    /\ Val(pending[req.session][req.profile]).attempts = 5

(***************************************************************************)
(* C10: a send_otp with a valid email stores, for its session and profile, *)
(* the challenge made of the posted email (stripped), the code that is     *)
(* mailed to it (six decimal digits), expires_at = now + 5 minutes and     *)
(* attempts = 0, in place of whatever challenge was pending, locked or     *)
(* not; and a verify_otp succeeds only with the code of the challenge that *)
(* is stored when it arrives, so the code of a replaced challenge verifies *)
(* only if the new code equals it.                                         *)
(***************************************************************************)
SixDigits(code) ==
    Len(code) = 6 /\ \A i \in 1..6 : \E d \in 1..10 : code[i] = DigitChars[d]

C10_SendReplaces ==
    [][/\ (/\ IsSend(req')
           /\ PostedEmail(req') # Empty /\ Contains(PostedEmail(req'), "@"))
          => LET new == pending'[req'.session][req'.profile]
             IN  /\ new # Absent
                 /\ Val(new).email = PostedEmail(req')
                 /\ Val(new).expires_at = now + 5 * 60
                 /\ Val(new).attempts = 0
                 /\ SixDigits(Val(new).code)
                 /\ Len(mails') = 1
                 /\ mails'[1].to = PostedEmail(req')
                 /\ mails'[1].code = Val(new).code
                 /\ resp'.status = 200
       /\ (IsVerify(req') /\ Granted(resp'))
          => /\ pending[req'.session][req'.profile] # Absent
             /\ PostedCode(req') = Val(pending[req'.session][req'.profile]).code
    ]_vars

\* a locked challenge is replaced by one for another email with another code
C10_Witness ==
    /\ IsSend(req) /\ resp.status = 200
    /\ req.found # Absent
    /\ Val(req.found).attempts = 5
    /\ pending[req.session][req.profile] # Absent
    /\ Val(pending[req.session][req.profile]).attempts = 0
    /\ Val(pending[req.session][req.profile]).code # Val(req.found).code
    /\ Val(pending[req.session][req.profile]).email # Val(req.found).email

(***************************************************************************)
(* C11: a send_otp whose email, once stripped, is empty or has no '@' is   *)
(* answered 400 with the validation error, hands no message to send_mail   *)
(* and leaves the session as it was: the pending challenge (code, email,   *)
(* expires_at, attempts) and the grant of every pair are unchanged.        *)
(***************************************************************************)
C11_InvalidEmailNoChange ==
    [][(/\ IsSend(req')
        /\ (PostedEmail(req') = Empty \/ ~Contains(PostedEmail(req'), "@")))
       => /\ Failed(resp', 400, ErrEmail)
          /\ mails' = <<>>
          /\ pending' = pending
          /\ grant' = grant
          /\ log' = log
    ]_vars

\* an email without '@' is refused in a session that holds the grant and a
\* challenge with two counted attempts
C11_Witness ==
    /\ IsSend(req)
    /\ PostedEmail(req) = <<"a", "x">>
    /\ Failed(resp, 400, ErrEmail)
    /\ req.found # Absent
    /\ Val(req.found).attempts = 2
    /\ pending[req.session][req.profile] = req.found
    /\ grant[req.session][req.profile].access
    /\ mails = <<>>

(***************************************************************************)
(* C12: what a send_otp with a valid email stores and answers does not     *)
(* depend on whether the message was delivered.  The challenge (posted     *)
(* email, mailed code, expires_at = now + 5 minutes, attempts = 0) and the *)
(* response (200, OTP form shown, confirmation naming the email) are fixed *)
(* by the request and the clock alone, the rest of the session is          *)
(* unchanged, and the code of the message verifies in the next request     *)
(* also when the dispatch failed.                                          *)
(***************************************************************************)
C12_DispatchOutcomeHidden ==
    [][/\ (/\ IsSend(req')
           /\ PostedEmail(req') # Empty /\ Contains(PostedEmail(req'), "@"))
          => LET s == req'.session
                 p == req'.profile
                 email == PostedEmail(req')
             IN  /\ Len(mails') = 1
                 /\ mails'[1].outcome \in {"sent", "failed"}
                 /\ pending'[s][p] =
                        <<[email |-> email, code |-> mails'[1].code,
                           expires_at |-> now + 5 * 60, attempts |-> 0]>>
                 /\ resp' = AccessPage(200, "", TRUE, email, email)
                 /\ \A t \in Sessions, q \in Profiles :
                        <<t, q>> # <<s, p>> => pending'[t][q] = pending[t][q]
                 /\ grant' = grant
                 /\ log' = log
       /\ (/\ IsSend(req) /\ Len(mails) = 1 /\ mails[1].outcome = "failed"
           /\ IsVerify(req') /\ SamePair(req, req')
           /\ PostedCode(req') = mails[1].code
           /\ PostedReason(req') # Empty)
          => /\ Granted(resp')
             /\ grant'[req'.session][req'.profile].access
    ]_vars

\* the dispatch failed, the challenge is stored and the caller is told that
\* the code was sent
C12_Witness ==
    /\ IsSend(req)
    /\ Len(mails) = 1
    /\ mails[1].outcome = "failed"
    /\ resp.status = 200 /\ resp.otp_pending /\ resp.error = ""
    /\ pending[req.session][req.profile] # Absent
    /\ Val(pending[req.session][req.profile]).code = mails[1].code
    /\ Val(pending[req.session][req.profile]).email = mails[1].to

(***************************************************************************)
(* C13: after a successful verify_otp the session holds, for that profile, *)
(* the grant, the email of the challenge that was verified and the reason  *)
(* that was posted (as the view reads it: stripped, and non-empty), and    *)
(* the challenge is gone.  The email of a pending challenge is the one     *)
(* posted with the send_otp that stored it: it is set by a send_otp with a *)
(* valid email and by nothing else, so it is that of the most recent one.  *)
(***************************************************************************)
C13_GrantRecord ==
    [][/\ (IsVerify(req') /\ Granted(resp'))
          => LET s == req'.session
                 p == req'.profile
             IN  /\ pending[s][p] # Absent
                 /\ PostedReason(req') # Empty
                 /\ grant'[s][p] = [access |-> TRUE,
                                    email |-> <<Val(pending[s][p]).email>>,
                                    reason |-> <<PostedReason(req')>>]
                 /\ pending'[s][p] = Absent
       /\ \A s \in Sessions, p \in Profiles :
            (/\ pending'[s][p] # Absent
             /\ \/ pending[s][p] = Absent
                \/ Val(pending'[s][p]).email # Val(pending[s][p]).email)
            => /\ IsSend(req') /\ req'.session = s /\ req'.profile = p
               /\ Val(pending'[s][p]).email = PostedEmail(req')
       /\ (/\ IsSend(req')
           /\ PostedEmail(req') # Empty /\ Contains(PostedEmail(req'), "@"))
          => Val(pending'[req'.session][req'.profile]).email = PostedEmail(req')
    ]_vars

\* the grant records the email of the second send_otp and the stripped reason
C13_Witness ==
    /\ IsVerify(req) /\ Granted(resp)
    /\ req.reason = <<"r", " ">>
    /\ req.found # Absent
    /\ Val(req.found).email = <<"b", "@", "x">>
    /\ Val(req.found).attempts > 0
    /\ grant[req.session][req.profile] =
            [access |-> TRUE, email |-> <<(<<"b", "@", "x">>)>>, reason |-> <<(<<"r">>)>>]
    /\ pending[req.session][req.profile] = Absent

(***************************************************************************)
(* C14: once the grant of a (session, profile) pair is set, no request     *)
(* clears it: a later send_otp (valid or not), a verify_otp that fails, is *)
(* refused by the lock or finds the challenge expired, a GET or an unknown *)
(* action of doctor_access, a protected-view request, and the passing of   *)
(* time all leave it set.                                                  *)
(***************************************************************************)
C14_GrantPersists ==
    [][\A s \in Sessions, p \in Profiles :
            grant[s][p].access => grant'[s][p].access
    ]_vars

\* a session that holds the grant has a new challenge locked and refused
C14_Witness ==
    /\ IsVerify(req)
    /\ Failed(resp, 429, ErrTooMany)
    /\ req.found # Absent
    /\ grant[req.session][req.profile].access
    /\ grant[req.session][req.profile].email # <<Val(req.found).email>>

LoggingViews ==
    {"doctor_profile_view", "doctor_profile_download", "doctor_profile_download_pdf",
     "doctor_health_monitoring_view"}

EventTypes == {"doctor_view", "doctor_health_view", "download_html", "download_pdf"}

\* the step is an access event: a logging view wrote its entry, the last of log'
IsEvent == req'.view \in LoggingViews /\ Len(log') = Len(log) + 1

NewEntry == log'[Len(log')]

\* the step hands an owner notification to send_mail
Dispatches == mails' # <<>> /\ mails'[1].kind = "notify"

\* the entries of lg for profile p that are flagged notified and lie in the
\* cooldown window that ends at t
InWindow(lg, p, t) ==
    {i \in 1..Len(lg) : /\ lg[i].profile = p
                        /\ lg[i].notified
                        /\ lg[i].created_at >= t - 30 * 60}

(***************************************************************************)
(* C16 as claimed: for a profile with an owner email, an access event of   *)
(* type E hands a notification to the notifier if and only if no entry of  *)
(* the same profile and the same type E that is flagged notified was       *)
(* created at or after now - 30 minutes; an event that sends nothing       *)
(* leaves its own entry with notified = false.                             *)
(***************************************************************************)
C16_CooldownRule ==
    [][(IsEvent /\ OwnerEmail(req'.profile) # Empty) =>
        LET E == NewEntry.event_type
            recent == \E i \in InWindow(log, req'.profile, now) : log[i].event_type = E
        IN  /\ Dispatches <=> ~recent
            /\ ~Dispatches => ~NewEntry.notified
    ]_vars

\* the part of C16 that the code satisfies: the rule for the events of type
\* doctor_view, download_html and download_pdf
C16_CooldownRuleButHealth ==
    [][(/\ IsEvent /\ OwnerEmail(req'.profile) # Empty
        /\ NewEntry.event_type # "doctor_health_view") =>
        LET E == NewEntry.event_type
            recent == \E i \in InWindow(log, req'.profile, now) : log[i].event_type = E
        IN  /\ Dispatches <=> ~recent
            /\ ~Dispatches => ~NewEntry.notified
    ]_vars

\* a notified doctor_view at T, one at T + 10 min that is not notified, one
\* at T + 30 min that is not notified either, and the clock at T + 31 min
C16_Example ==
    /\ Len(log) = 3
    /\ \A i \in 1..3 : log[i].event_type = "doctor_view"
    /\ log[1].notified /\ ~log[2].notified /\ ~log[3].notified
    /\ log[2].created_at = log[1].created_at + 10 * 60
    /\ log[3].created_at = log[1].created_at + 30 * 60
    /\ now = log[1].created_at + 31 * 60

\* two health views in a row are both notified to the owner
C16_Witness ==
    /\ req.view = "doctor_health_monitoring_view"
    /\ Len(log) = 2
    /\ \A i \in 1..2 : log[i].event_type = "doctor_health_view" /\ log[i].notified
    /\ log[1].created_at = log[2].created_at
    /\ mails # <<>>

(***************************************************************************)
(* C17 as claimed: the cooldown is kept per (profile, event type).  For an *)
(* event of each of the four types, a notified entry of another type in    *)
(* the window does not suppress the notification, and a notified entry of  *)
(* the same type in the window does.                                       *)
(***************************************************************************)
C17_PerEventType ==
    [][(IsEvent /\ OwnerEmail(req'.profile) # Empty) =>
        LET E == NewEntry.event_type
            window == InWindow(log, req'.profile, now)
            same == {i \in window : log[i].event_type = E}
            other == {i \in window : log[i].event_type # E}
        IN  /\ E \in EventTypes
            /\ (same = {} /\ other # {}) => Dispatches
            /\ same # {} => ~Dispatches /\ ~NewEntry.notified
    ]_vars

\* a health view is not notified because of a notified doctor_view, the
\* only notified entry there is
C17_Witness ==
    /\ req.view = "doctor_health_monitoring_view"
    /\ Len(log) = 2
    /\ log[1].event_type = "doctor_view" /\ log[1].notified
    /\ log[2].event_type = "doctor_health_view" /\ ~log[2].notified
    /\ mails = <<>>
    /\ resp.status = 200

(***************************************************************************)
(* C18 as claimed: when the dispatch of an owner notification fails, the   *)
(* entry keeps notified = false and the request is answered as usual, so   *)
(* the entry starts no cooldown: the next event of the same type for the   *)
(* profile hands a notification to the notifier again.                     *)
(***************************************************************************)
DispatchFailed(ms) ==
    ms # <<>> /\ ms[1].kind = "notify" /\ ms[1].outcome \in {"failed", "raised"}

C18_FailedDispatchRetried ==
    [][/\ DispatchFailed(mails') =>
            /\ ~log'[mails'[1].entry].notified
            /\ resp'.status \in {200, 501} /\ resp'.error = ""
       /\ (/\ DispatchFailed(mails)
           /\ IsEvent
           /\ req'.profile = req.profile
           /\ NewEntry.event_type = mails[1].event_type)
          => Dispatches
    ]_vars

\* the delivery failed without an exception: the entry is flagged notified
\* and the next doctor_view is not notified, though no notification was
\* ever delivered
C18_Witness ==
    /\ req.view = "doctor_profile_view"
    /\ Len(log) = 2
    /\ \A i \in 1..2 : log[i].event_type = "doctor_view"
    /\ log[1].notified /\ ~log[2].notified
    /\ mails = <<>>
    /\ notices = {}

(***************************************************************************)
(* C19 as claimed: whatever the order in which the requests of the         *)
(* sessions are handled, two owner notifications that are delivered for    *)
(* the same profile and the same event type are at least the cooldown (30  *)
(* minutes) apart.                                                         *)
(***************************************************************************)
C19_CooldownApart ==
    \A a \in notices, b \in notices :
        (a # b /\ a.profile = b.profile /\ a.event_type = b.event_type)
        => (a.at - b.at >= 30 * 60 \/ b.at - a.at >= 30 * 60)

\* the doctor_view requests of two sessions for one profile, handled at the
\* same time, were both notified to the owner
C19_Witness ==
    /\ Len(log) = 2
    /\ log[1].event_type = "doctor_view" /\ log[2].event_type = "doctor_view"
    /\ log[1].profile = log[2].profile
    /\ log[1].ip_address # log[2].ip_address
    /\ log[1].notified /\ log[2].notified
    /\ Cardinality(notices) = 2
    /\ \A a \in notices : a.at = now

(***************************************************************************)
(* C20 as claimed: every request that returns gated clinical data to a     *)
(* session that holds the grant (the four page and download views and      *)
(* health_data_get), and every public_profile view, appends exactly one    *)
(* access-log entry of the matching event type when the log store is       *)
(* available.  A request appends at most its one entry, and in every state *)
(* each of these requests can be handled so that its entry is appended     *)
(* (the handling in which the store does not fail).                        *)
(***************************************************************************)
\* the step appends one entry for profile p, of event type E
Logged(p, E) ==
    /\ Len(log') = Len(log) + 1
    /\ SubSeq(log', 1, Len(log)) = log
    /\ log'[Len(log')].profile = p
    /\ log'[Len(log')].event_type = E

C20_EveryAccessLogged ==
    /\ [](\A sp \in GatePairs :
            /\ ENABLED (PublicProfile(sp[1], sp[2]) /\ Logged(sp[2], "public_view"))
            /\ HasAccess(sp[1], sp[2]) =>
                /\ ENABLED (DoctorProfileView(sp[1], sp[2]) /\ Logged(sp[2], "doctor_view"))
                /\ ENABLED (DoctorProfileDownload(sp[1], sp[2])
                                /\ Logged(sp[2], "download_html"))
                /\ ENABLED (DoctorProfileDownloadPdf(sp[1], sp[2])
                                /\ Logged(sp[2], "download_pdf"))
                /\ ENABLED (DoctorHealthMonitoringView(sp[1], sp[2])
                                /\ Logged(sp[2], "doctor_health_view"))
                /\ ENABLED (HealthDataGet(sp[1], sp[2])
                                /\ \E E \in EventTypes : Logged(sp[2], E)))
    /\ [][(resp'.data # 0 \/ req'.view = "public_profile") =>
            \/ log' = log
            \/ \E E \in EventTypes \cup {"public_view"} : Logged(req'.profile, E)
       ]_vars

\* the part of C20 that the code satisfies: the four page and download
\* views and public_profile
C20_PagesLogged ==
    /\ [](\A sp \in GatePairs :
            /\ ENABLED (PublicProfile(sp[1], sp[2]) /\ Logged(sp[2], "public_view"))
            /\ HasAccess(sp[1], sp[2]) =>
                /\ ENABLED (DoctorProfileView(sp[1], sp[2]) /\ Logged(sp[2], "doctor_view"))
                /\ ENABLED (DoctorProfileDownload(sp[1], sp[2])
                                /\ Logged(sp[2], "download_html"))
                /\ ENABLED (DoctorProfileDownloadPdf(sp[1], sp[2])
                                /\ Logged(sp[2], "download_pdf"))
                /\ ENABLED (DoctorHealthMonitoringView(sp[1], sp[2])
                                /\ Logged(sp[2], "doctor_health_view")))
    /\ [][(req'.view \in LoggingViews \cup {"public_profile"}
            /\ (resp'.data # 0 \/ req'.view = "public_profile")) =>
            \/ log' = log
            \/ Logged(req'.profile,
                      CASE req'.view = "doctor_profile_view" -> "doctor_view"
                        [] req'.view = "doctor_profile_download" -> "download_html"
                        [] req'.view = "doctor_profile_download_pdf" -> "download_pdf"
                        [] req'.view = "doctor_health_monitoring_view" -> "doctor_health_view"
                        [] req'.view = "public_profile" -> "public_view")
       ]_vars

\* health_data_get returned the health data of the profile to a granted
\* session and the log is still empty
C20_Witness ==
    /\ req.view = "health_data_get"
    /\ resp.status = 200 /\ resp.data = req.profile
    /\ grant[req.session][req.profile].access
    /\ log = <<>>

(***************************************************************************)
(* C21: a failure to write the access-log entry never blocks the action.   *)
(* When public_profile, doctor_profile_view, doctor_profile_download,      *)
(* doctor_profile_download_pdf or doctor_health_monitoring_view passes its *)
(* gate and the log write fails (the log is left as it was), the view      *)
(* still answers with its normal content, no error is shown, and no owner  *)
(* notification is attempted for that event.                               *)
(***************************************************************************)
\* the request passed the gate of a view that logs, and the log is unchanged
LogWriteFailed ==
    /\ req'.view \in LoggingViews \cup {"public_profile"}
    /\ req'.view \in LoggingViews => HasAccess(req'.session, req'.profile)
    /\ log' = log

\* what the view answers when the write succeeds
NormalContent(view, p) ==
    CASE view = "public_profile" ->
            {Resp(200, "public_profile.html", "", FALSE, Empty, Empty, 0)}
      [] view = "doctor_profile_view" -> {Page(200, "doctor_profile.html", p)}
      [] view = "doctor_profile_download" -> {Page(200, "doctor_profile_download.html", p)}
      [] view = "doctor_profile_download_pdf" ->
            {Page(200, "medical_profile.pdf", p),
             Page(501, "PDF generation is not available", 0)}
      [] view = "doctor_health_monitoring_view" ->
            {Page(200, "health_monitoring_clinician.html", p)}

C21_LogFailureNotBlocking ==
    [][LogWriteFailed =>
        /\ resp' \in NormalContent(req'.view, req'.profile)
        /\ resp'.error = ""
        /\ mails' = <<>>
        /\ notices' = notices
        /\ UNCHANGED <<pending, grant>>
      ]_vars

\* doctor_profile_view of a granted session for a profile with an owner
\* email: the write failed, the page with the profile is answered, no mail
C21_Witness ==
    /\ req.view = "doctor_profile_view"
    /\ grant[req.session][req.profile].access
    /\ OwnerEmail(req.profile) # Empty
    /\ log = <<>>
    /\ resp = Page(200, "doctor_profile.html", req.profile)
    /\ mails = <<>>

(***************************************************************************)
(* C22: the access log is append-only.  In every step an entry that was    *)
(* written stays at its place, its profile, event_type, viewer_email,      *)
(* reason, ip_address, user_agent and created_at are unchanged, and its    *)
(* notified flag is unchanged or goes from false to true; so the flag      *)
(* changes at most once and never goes back.                               *)
(***************************************************************************)
\* entry e2 is entry e1 with, at most, another notified flag
SameButNotified(e1, e2) == e2 = [e1 EXCEPT !.notified = e2.notified]

C22_AppendOnly ==
    [][/\ Len(log') >= Len(log)
       /\ \A i \in 1..Len(log) :
            /\ SameButNotified(log[i], log'[i])
            /\ log[i].notified => log'[i].notified
      ]_vars

\* the last step flagged the first of three entries, which had been written
\* unflagged two entries earlier, while another entry is flagged already
C22_Witness ==
    /\ Len(log) = 3
    /\ mails # <<>> /\ mails[1].kind = "notify"
    /\ mails[1].entry = 1 /\ mails[1].outcome = "sent"
    /\ log[1].notified
    /\ log[2].notified

(***************************************************************************)
(* C23: a newly recorded entry reads back with notified = false; after a   *)
(* notification for it was dispatched successfully the same entry reads    *)
(* back with notified = true and every other field as at its creation, and *)
(* no other entry of the log is modified by that notification.             *)
(***************************************************************************)
\* the step handed a notification to send_mail and it was delivered
Delivered == Dispatches /\ mails'[1].outcome = "sent"

C23_RecordThenNotify ==
    [][/\ Len(log') = Len(log) + 1 =>
            /\ log' = Append(log, DoctorEntry(req'.session, req'.profile, "doctor_view", now))
            /\ ~log'[Len(log')].notified
       /\ Delivered =>
            /\ mails'[1].entry \in 1..Len(log)
            /\ ~log[mails'[1].entry].notified
            /\ log' = [log EXCEPT ![mails'[1].entry].notified = TRUE]
      ]_vars

\* the second of two entries was recorded unflagged and its notification
\* was delivered in the last step; the first entry is as it was written
C23_Witness ==
    /\ Len(log) = 2
    /\ mails # <<>> /\ mails[1].kind = "notify"
    /\ mails[1].entry = 2 /\ mails[1].outcome = "sent"
    /\ log[2] = [DoctorEntry(req.session, req.profile, "doctor_view", log[2].created_at)
                     EXCEPT !.notified = TRUE]
    /\ ~log[1].notified
    /\ log[1].created_at < log[2].created_at

(***************************************************************************)
(* C24: for a profile whose owner_email is empty the notifier gate is a    *)
(* no-op: no request for that profile hands an owner notification to       *)
(* send_mail, and no access-log entry of that profile ever has             *)
(* notified = true.                                                        *)
(***************************************************************************)
NoOwner(p) == OwnerEmail(p) = Empty

C24_NoOwnerNoNotify ==
    [][/\ (req'.profile \in Profiles /\ NoOwner(req'.profile)) => ~Dispatches
       /\ \A i \in 1..Len(log') : NoOwner(log'[i].profile) => ~log'[i].notified
       /\ \A n \in notices' : ~NoOwner(n.profile)
      ]_vars

\* a granted session was shown the page of a profile without owner email:
\* the entry is in the log, unflagged, and no mail was handed over
C24_Witness ==
    /\ req.view = "doctor_profile_view"
    /\ NoOwner(req.profile)
    /\ resp = Page(200, "doctor_profile.html", req.profile)
    /\ Len(log) = 1
    /\ log[1].profile = req.profile /\ log[1].event_type = "doctor_view"
    /\ ~log[1].notified
    /\ mails = <<>>

(***************************************************************************)
(* C25: every access-log entry written by a protected view (doctor_view,   *)
(* doctor_health_view, download_html, download_pdf) carries as             *)
(* viewer_email and reason the verifier email and the reason of the grant  *)
(* the session obtained at OTP verification.  End to end: a challenge      *)
(* issued to an email and verified with a reason, then one                 *)
(* doctor_profile_view, gives a doctor_view entry with that email and that *)
(* reason, and the owner is notified exactly once.                         *)
(***************************************************************************)
\* the email and the reason submitted in this specification
ScenarioEmail == <<"a", "@", "x">>
ScenarioReason == <<"r">>

C26_AttemptsCountWrongCodes ==
    \A s \in Sessions, p \in Profiles :
        pending[s][p] # Absent =>
            /\ Val(pending[s][p]).attempts \in 0..OTP_MAX_ATTEMPTS
            /\ Val(pending[s][p]).attempts = tried[s][p]

\* five wrong codes were compared, and a sixth submission was refused
\* without being counted
C26_Witness ==
    /\ pending[1][1] # Absent
    /\ Val(pending[1][1]).attempts = OTP_MAX_ATTEMPTS
    /\ tried[1][1] = OTP_MAX_ATTEMPTS
    /\ IsVerify(req)
    /\ resp.status = 429

(***************************************************************************)
(* C27 as claimed: for one issued challenge at most max_attempts submitted *)
(* codes are ever compared with the stored code, also when verify_otp      *)
(* requests of the same session are handled at the same time: no           *)
(* increment of attempts is lost.                                          *)
(***************************************************************************)
C27_AtMostMaxCompared ==
    \A s \in Sessions, p \in Profiles :
        /\ tried[s][p] <= OTP_MAX_ATTEMPTS
        /\ pending[s][p] # Absent => Val(pending[s][p]).attempts = tried[s][p]

\* a sixth code was compared with the code of the one challenge, and the
\* stored counter is behind the number of codes compared
C27_Witness ==
    /\ tried[1][1] = OTP_MAX_ATTEMPTS + 1
    /\ pending[1][1] # Absent
    /\ Val(pending[1][1]).attempts < tried[1][1]
    /\ IsVerify(req) /\ resp.status = 401

(***************************************************************************)
(* C28: public_profile records a public_view entry and never evaluates the *)
(* notifier gate.  A public view hands no owner notification to send_mail, *)
(* whatever the log holds; every public_view entry has notified = false in *)
(* every state; and the decision to notify for a doctor_profile_view is    *)
(* the one it would be if the log held no public_view entry, so public     *)
(* views neither start a cooldown nor are held back by one.                *)
(***************************************************************************)
IsPublicEntry(e) == e.event_type = "public_view"

\* the log without its public_view entries
WithoutPublic(lg) == SelectSeq(lg, LAMBDA e : ~IsPublicEntry(e))

C28_PublicViewNotGated ==
    [][/\ req'.view = "public_profile" =>
            /\ mails' = <<>>
            /\ notices' = notices
            /\ \/ log' = log
               \/ /\ Len(log') = Len(log) + 1
                  /\ SubSeq(log', 1, Len(log)) = log
                  /\ IsPublicEntry(log'[Len(log')])
                  /\ log'[Len(log')].profile = req'.profile
            /\ resp' = Resp(200, "public_profile.html", "", FALSE, Empty, Empty, 0)
       /\ \A i \in 1..Len(log') : IsPublicEntry(log'[i]) => ~log'[i].notified
       /\ \A n \in notices' : n.event_type # "public_view"
       /\ (req'.view = "doctor_profile_view" /\ IsEvent) =>
            (Dispatches <=> NotifyDue(WithoutPublic(log), req'.profile, "doctor_view", now))
      ]_vars

\* a public view and then, at the same time, a doctor view whose
\* notification went out: the public entry is unflagged and held nothing back
C28_Witness ==
    /\ Len(log) = 2
    /\ IsPublicEntry(log[1]) /\ ~log[1].notified
    /\ log[2].event_type = "doctor_view" /\ log[2].notified
    /\ log[2].created_at = log[1].created_at
    /\ log[2].profile = log[1].profile
    /\ req.view = "doctor_profile_view"
    /\ Len(mails) = 1 /\ mails[1].kind = "notify"

====
